---- MODULE Spec2Model ----
(***************************************************************************)
(* A model of the RAPTOR query engine of src/Trips.py: the timetable       *)
(* network (Route, Trip), the two indices built by RAPTOR.__init__, the    *)
(* K-round label relaxation of RAPTOR.query, and the backward walk of      *)
(* RAPTOR._reconstruct_journey.                                            *)
(*                                                                         *)
(* Stops are the integers 1..NumStops, a route is its index in `routes`,   *)
(* a trip is its index in `trips`.  Python's None is 0 for a stop or a     *)
(* trip reference; a dict is a function whose DOMAIN is the key set.       *)
(* labels[k] of the code is labels[k + 1] here (sequences start at 1).     *)
(***************************************************************************)
EXTENDS Integers, Sequences, FiniteSets, TLC

\* ------------------------------------------------------------------------
\* Bounds of the explored inputs
\* ------------------------------------------------------------------------
NumStops == 3
MaxTime == 2
MaxRounds == 3

Stops == 1..NumStops
Times == 0..MaxTime
\* a trip arrives at a stop as it departs, or one time unit before
Dwells == {0, 1}
NoStop == 0
NoTrip == 0

VARIABLES
    routes,            \* RAPTOR.routes: sequence of stop sequences
    trips,             \* RAPTOR.trips: sequence of [route, stop_times]
    routes_at_stop,    \* RAPTOR.routes_at_stop: stop -> sequence of routes
    trips_on_route,    \* RAPTOR.trips_on_route: route -> sequence of trips
    origin, destination, departure_time, max_rounds,   \* arguments of query
    labels,            \* the local `labels` of query
    marked_stops,      \* the local `marked_stops` of query
    k,                 \* the round counter of query
    routes_to_explore, \* routes of the round's queue not yet scanned
    pc,                \* position of the running call
    result,            \* what the last call returned or raised
    previous,          \* the result of the preceding query of this caller
    fet                \* arguments and result of the last find_earliest_trip call

vars == <<routes, trips, routes_at_stop, trips_on_route, origin, destination,
          departure_time, max_rounds, labels, marked_stops, k,
          routes_to_explore, pc, result, previous, fet>>

network == <<routes, trips, routes_at_stop, trips_on_route>>
queryArgs == <<origin, destination, departure_time, max_rounds>>

\* ------------------------------------------------------------------------
\* Small helpers
\* ------------------------------------------------------------------------
Range(f) == {f[x] : x \in DOMAIN f}

Min(S) == CHOOSE x \in S : \A y \in S : x <= y

\* dict with one key set (d[key] = value)
Put(d, key, value) == [x \in (DOMAIN d) \cup {key} |-> IF x = key THEN value ELSE d[x]]

EmptyDict == [x \in {} |-> 0]

\* ------------------------------------------------------------------------
\* Network model: Route, Trip
\* ------------------------------------------------------------------------
\* Route.get_stop_index: index of the stop on the route, 0 when absent
get_stop_index(routeStops, stop) ==
    IF \E i \in 1..Len(routeStops) : routeStops[i] = stop
    THEN Min({i \in 1..Len(routeStops) : routeStops[i] = stop})
    ELSE 0

\* Trip.get_arrival_time: -1 stands for None (times of a network are >= 0)
NoTime == -1

get_arrival_time(trip, stop) ==
    IF stop \in DOMAIN trip.stop_times THEN trip.stop_times[stop][1] ELSE NoTime

get_departure_time(trip, stop) ==
    IF stop \in DOMAIN trip.stop_times THEN trip.stop_times[stop][2] ELSE NoTime

\* can_board_at without the comparison with current_time
can_board_at_any(trip, stop, current_time) ==
    get_departure_time(trip, stop) # NoTime

can_board_at(trip, stop, current_time) ==
    LET dep_time == get_departure_time(trip, stop)
    IN  dep_time # NoTime /\ dep_time >= current_time

\* Label.is_better_than, `other` given as the dict and the key it is looked up by
NewLabel(arrival_time, previous_stop, trip, round) ==
    [arrival_time |-> arrival_time, previous_stop |-> previous_stop,
     trip |-> trip, round |-> round]

\* is_better_than with the comparison reversed
is_later_than(label, dict, key) ==
    IF key \notin DOMAIN dict THEN TRUE
    ELSE label.arrival_time > dict[key].arrival_time

\* is_better_than answering True whatever the other label: the last write wins
is_better_than_always(label, dict, key) == TRUE

is_better_than(label, dict, key) ==
    IF key \notin DOMAIN dict THEN TRUE
    ELSE label.arrival_time < dict[key].arrival_time

\* get_num_transfers counting the legs
get_num_transfers_legs(legs) == Len(legs)

\* Journey.get_num_transfers
get_num_transfers(legs) ==
    IF Len(legs) - 1 > 0 THEN Len(legs) - 1 ELSE 0

\* ------------------------------------------------------------------------
\* RAPTOR.__init__: the two indices
\* ------------------------------------------------------------------------
\* append x to the list unless it is already in it
AppendNew(list, x) == IF x \in Range(list) THEN list ELSE Append(list, x)

RECURSIVE IndexRoute(_, _, _, _)
\* inner loop of _build_route_index: the stops i.. of route r
IndexRoute(index, rs, r, i) ==
    IF i > Len(rs[r]) THEN index
    ELSE LET stop == rs[r][i]
             list == IF stop \in DOMAIN index THEN index[stop] ELSE <<>>
         IN  IndexRoute(Put(index, stop, AppendNew(list, r)), rs, r, i + 1)

RECURSIVE BuildRouteIndexFrom(_, _, _)
BuildRouteIndexFrom(index, rs, r) ==
    IF r > Len(rs) THEN index
    ELSE BuildRouteIndexFrom(IndexRoute(index, rs, r, 1), rs, r + 1)

build_route_index(rs) == BuildRouteIndexFrom(EmptyDict, rs, 1)

RECURSIVE BuildTripIndexFrom(_, _, _)
BuildTripIndexFrom(index, ts, t) ==
    IF t > Len(ts) THEN index
    ELSE LET r == ts[t].route
             list == IF r \in DOMAIN index THEN index[r] ELSE <<>>
         IN  BuildTripIndexFrom(Put(index, r, Append(list, t)), ts, t + 1)

build_trip_index(ts) == BuildTripIndexFrom(EmptyDict, ts, 1)

\* ------------------------------------------------------------------------
\* RAPTOR.find_earliest_trip
\* ------------------------------------------------------------------------
RECURSIVE EarliestFromLast(_, _, _, _, _, _)
\* the loop of find_earliest_trip replacing on `<=`: the last of the trips
\* tied on the least departure
EarliestFromLast(ts, list, stop, current_time, i, best) ==
    IF i > Len(list) THEN best
    ELSE LET trip == ts[list[i]]
             better == /\ can_board_at(trip, stop, current_time)
                       /\ \/ best = NoTrip
                          \/ get_departure_time(trip, stop)
                               <= get_departure_time(ts[best], stop)
         IN  EarliestFromLast(ts, list, stop, current_time, i + 1,
                              IF better THEN list[i] ELSE best)

RECURSIVE EarliestFrom(_, _, _, _, _, _)
\* the loop over trips_on_route[route] from position i on; best = NoTrip
\* stands for earliest_departure = inf
EarliestFrom(ts, list, stop, current_time, i, best) ==
    IF i > Len(list) THEN best
    ELSE LET trip == ts[list[i]]
             better == /\ can_board_at(trip, stop, current_time)
                       /\ \/ best = NoTrip
                          \/ get_departure_time(trip, stop)
                               < get_departure_time(ts[best], stop)
         IN  EarliestFrom(ts, list, stop, current_time, i + 1,
                          IF better THEN list[i] ELSE best)

find_earliest_trip(ts, tor, route, stop, current_time) ==
    IF route \notin DOMAIN tor THEN NoTrip
    ELSE EarliestFrom(ts, tor[route], stop, current_time, 1, NoTrip)

\* ------------------------------------------------------------------------
\* RAPTOR.query: one route scan (the body of `for route in routes_to_explore`)
\* ------------------------------------------------------------------------
RECURSIVE HopOnFrom(_, _, _, _)
\* the first loop over route.stops: the labelled stop of least arrival in
\* the previous round's table, the first such on ties; best = NoStop
\* stands for earliest_boarding_time = inf
HopOnFrom(routeStops, prev, i, best) ==
    IF i > Len(routeStops) THEN best
    ELSE LET stop == routeStops[i]
             better == /\ stop \in DOMAIN prev
                       /\ \/ best = NoStop
                          \/ prev[stop].arrival_time < prev[best].arrival_time
         IN  HopOnFrom(routeStops, prev, i + 1, IF better THEN stop ELSE best)

\* whether the walk boards the trip at this stop
BoardsHere(trip, stop, prev, boarded) ==
    /\ ~boarded
    /\ stop \in DOMAIN prev
    /\ can_board_at(trip, stop, prev[stop].arrival_time)

RECURSIVE Traverse(_, _, _, _, _, _, _, _, _)
\* the second loop over route.stops, from position i on.  st carries the
\* round's table, the marked set, `boarded` and `boarding_stop`.
Traverse(ts, routeStops, t, prev, round, i, st, boarded, boarding_stop) ==
    IF i > Len(routeStops) THEN st
    ELSE LET stop == routeStops[i]
             boards == BoardsHere(ts[t], stop, prev, boarded)
             nowBoarded == boarded \/ boards
             nowBoarding == IF boards THEN stop ELSE boarding_stop
             arrival_time == get_arrival_time(ts[t], stop)
             new_label == NewLabel(arrival_time, nowBoarding, t, round)
             writes == /\ nowBoarded
                       /\ arrival_time # NoTime
                       /\ is_better_than(new_label, st.labels, stop)
             st2 == IF writes
                    THEN [labels |-> Put(st.labels, stop, new_label),
                          marked |-> st.marked \cup {stop}]
                    ELSE st
         IN  Traverse(ts, routeStops, t, prev, round, i + 1, st2,
                      nowBoarded, nowBoarding)

\* the scan of one route taking its boarding decisions on the table of the
\* round being written instead of the previous round's
ScanRouteResultSameRound(rs, ts, tor, route, prev, round, st) ==
    LET earliest_boarding_stop == HopOnFrom(rs[route], st.labels, 1, NoStop)
    IN  IF earliest_boarding_stop = NoStop THEN st
        ELSE LET trip == find_earliest_trip(ts, tor, route,
                            earliest_boarding_stop,
                            st.labels[earliest_boarding_stop].arrival_time)
             IN  IF trip = NoTrip THEN st
                 ELSE Traverse(ts, rs[route], trip, st.labels, round, 1, st,
                               FALSE, NoStop)

\* the whole scan of one route in round `round`: prev is labels[round-1],
\* st holds labels[round] and marked_stops
ScanRouteResult(rs, ts, tor, route, prev, round, st) ==
    LET earliest_boarding_stop == HopOnFrom(rs[route], prev, 1, NoStop)
    IN  IF earliest_boarding_stop = NoStop THEN st
        ELSE LET trip == find_earliest_trip(ts, tor, route,
                            earliest_boarding_stop,
                            prev[earliest_boarding_stop].arrival_time)
             IN  IF trip = NoTrip THEN st
                 ELSE Traverse(ts, rs[route], trip, prev, round, 1, st,
                               FALSE, NoStop)

\* the routes serving the marked stops (the set routes_to_explore)
RouteQueue(ras, marked) ==
    UNION {Range(ras[s]) : s \in marked \cap DOMAIN ras}

\* ------------------------------------------------------------------------
\* RAPTOR._reconstruct_journey
\* ------------------------------------------------------------------------
RECURSIVE BestRoundFromShort(_, _, _, _, _)
\* the loop over the rounds as `for k in range(max_rounds)`: the last table
\* is not looked at
BestRoundFromShort(labs, dest, K, round, best) ==
    IF round >= K THEN best
    ELSE LET better == /\ dest \in DOMAIN labs[round + 1]
                       /\ \/ best = -1
                          \/ is_better_than(labs[round + 1][dest], labs[best + 1], dest)
         IN  BestRoundFromShort(labs, dest, K, round + 1, IF better THEN round ELSE best)

RECURSIVE BestRoundFromLast(_, _, _, _, _)
\* the loop over the rounds replacing the best label on an equal arrival
\* time as well: the last of the rounds tied on the least arrival
BestRoundFromLast(labs, dest, K, round, best) ==
    IF round > K THEN best
    ELSE LET better == /\ dest \in DOMAIN labs[round + 1]
                       /\ \/ best = -1
                          \/ ~is_better_than(labs[best + 1][dest], labs[round + 1], dest)
         IN  BestRoundFromLast(labs, dest, K, round + 1, IF better THEN round ELSE best)

RECURSIVE BestRoundFrom(_, _, _, _, _)
\* the loop `for k in range(max_rounds + 1)`; best = -1 stands for
\* best_label = None
BestRoundFrom(labs, dest, K, round, best) ==
    IF round > K THEN best
    ELSE LET better == /\ dest \in DOMAIN labs[round + 1]
                       /\ \/ best = -1
                          \/ is_better_than(labs[round + 1][dest], labs[best + 1], dest)
         IN  BestRoundFrom(labs, dest, K, round + 1, IF better THEN round ELSE best)

RECURSIVE BacktrackStuck(_, _, _, _)
\* the backward walk without `current_stop = label.previous_stop`
BacktrackStuck(labs, current_stop, current_round, legs) ==
    IF current_round <= 0 THEN [raised |-> FALSE, legs |-> legs]
    ELSE IF current_stop \notin DOMAIN labs[current_round + 1]
    THEN [raised |-> TRUE, legs |-> legs]
    ELSE LET label == labs[current_round + 1][current_stop]
         IN  IF label.previous_stop # NoStop /\ label.trip # NoTrip
             THEN BacktrackStuck(labs, current_stop, current_round - 1,
                            <<<<label.previous_stop, current_stop, label.trip>>>> \o legs)
             ELSE [raised |-> FALSE, legs |-> legs]

RECURSIVE Backtrack(_, _, _, _)
\* the loop `while current_round > 0`; the lookup of a missing key is the
\* KeyError the code would raise
Backtrack(labs, current_stop, current_round, legs) ==
    IF current_round <= 0 THEN [raised |-> FALSE, legs |-> legs]
    ELSE IF current_stop \notin DOMAIN labs[current_round + 1]
    THEN [raised |-> TRUE, legs |-> legs]
    ELSE LET label == labs[current_round + 1][current_stop]
         IN  IF label.previous_stop # NoStop /\ label.trip # NoTrip
             THEN Backtrack(labs, label.previous_stop, current_round - 1,
                            <<<<label.previous_stop, current_stop, label.trip>>>> \o legs)
             ELSE [raised |-> FALSE, legs |-> legs]

\* what a call returned: kind is "Journey", "None", or the exception raised
Returned(kind, o, d, t, K, arrival, legs) ==
    [kind |-> kind, origin |-> o, destination |-> d, departure_time |-> t,
     max_rounds |-> K, arrival_time |-> arrival, legs |-> legs]

NoResult == Returned("pending", NoStop, NoStop, 0, 0, 0, <<>>)

\* reconstruct_journey returning None for a journey without legs
reconstruct_journey_legs_only(o, d, t, labs, K) ==
    LET best_round == BestRoundFrom(labs, d, K, 0, -1)
    IN  IF best_round = -1 THEN Returned("None", o, d, t, K, 0, <<>>)
        ELSE LET walk == Backtrack(labs, d, best_round, <<>>)
             IN  IF walk.raised
                 THEN Returned("KeyError", o, d, t, K, 0, <<>>)
                 ELSE IF walk.legs = <<>>
                 THEN Returned("None", o, d, t, K, 0, <<>>)
                 ELSE Returned("Journey", o, d, t, K,
                               labs[best_round + 1][d].arrival_time, walk.legs)

\* reconstruct_journey looking for the destination in the last table only
reconstruct_journey_last_table(o, d, t, labs, K) ==
    IF d \notin DOMAIN labs[K + 1] THEN Returned("None", o, d, t, K, 0, <<>>)
    ELSE LET walk == Backtrack(labs, d, K, <<>>)
         IN  IF walk.raised
             THEN Returned("KeyError", o, d, t, K, 0, <<>>)
             ELSE Returned("Journey", o, d, t, K,
                           labs[K + 1][d].arrival_time, walk.legs)

reconstruct_journey(o, d, t, labs, K) ==
    LET best_round == BestRoundFrom(labs, d, K, 0, -1)
    IN  IF best_round = -1 THEN Returned("None", o, d, t, K, 0, <<>>)
        ELSE LET walk == Backtrack(labs, d, best_round, <<>>)
             IN  IF walk.raised
                 THEN Returned("KeyError", o, d, t, K, 0, <<>>)
                 ELSE Returned("Journey", o, d, t, K,
                               labs[best_round + 1][d].arrival_time, walk.legs)

\* ------------------------------------------------------------------------
\* The networks explored
\* ------------------------------------------------------------------------
\* A shape fixes the stop sequence of every route, the route of every free
\* trip, whose stop times are drawn from all timetables within the bounds,
\* and the trips with a fixed timetable that follow the free ones.
PlainShapes ==
    { [routes |-> << <<1, 2>>, <<2, 3>> >>, tripRoutes |-> <<1, 1>>, fixedTrips |-> <<>>],
      [routes |-> << <<1, 2>>, <<2, 3>> >>, tripRoutes |-> <<1, 2>>, fixedTrips |-> <<>>] }

\* a route and its way back, with a stop no route serves
ReturnShape ==
    [routes |-> << <<1, 2>>, <<2, 1>> >>, tripRoutes |-> <<1, 2>>, fixedTrips |-> <<>>]

\* two routes through all three stops: a free trip on the first, then a
\* given trip on the first and two on the second, dwelling at every stop
LoopShape ==
    [routes |-> << <<1, 2, 3>>, <<2, 3, 1>> >>, tripRoutes |-> <<1>>,
     fixedTrips |-> << [route |-> 1, departures |-> <<1, 1, 1>>, dwell |-> 1],
                       [route |-> 2, departures |-> <<2, 2, 2>>, dwell |-> 1],
                       [route |-> 2, departures |-> <<0, 1, 2>>, dwell |-> 1] >>]

Shapes == PlainShapes \cup {LoopShape}

\* departure times along n stops: non-decreasing
Departures(n) ==
    {d \in [1..n -> Times] : \A i \in 1..n, j \in 1..n : i < j => d[i] <= d[j]}

\* a trip of route r departing at d and arriving `dwell` before it departs
MakeTrip(r, routeStops, d, dwell) ==
    [route |-> r,
     stop_times |-> [s \in Range(routeStops) |->
        LET dep == d[get_stop_index(routeStops, s)]
        IN  <<IF dep >= dwell THEN dep - dwell ELSE 0, dep>>]]

TripsOn(rs, r, dwells) ==
    {MakeTrip(r, rs[r], d, w) : d \in Departures(Len(rs[r])), w \in dwells}

RECURSIVE TripLists(_, _, _, _)
\* every list of n trips, the i-th on route tripRoutes[i]
TripLists(rs, tripRoutes, n, dwells) ==
    IF n = 0 THEN {<<>>}
    ELSE {Append(ts, t) : ts \in TripLists(rs, tripRoutes, n - 1, dwells),
                          t \in TripsOn(rs, tripRoutes[n], dwells)}

\* no call of find_earliest_trip made yet
NoCall == [route |-> 0, stop |-> NoStop, current_time |-> 0, result |-> NoTrip]

\* the state after RAPTOR(routes, trips)
Constructed(rs, ts) ==
    /\ routes = rs
    /\ trips = ts
    /\ routes_at_stop = build_route_index(rs)
    /\ trips_on_route = build_trip_index(ts)
    /\ origin = NoStop /\ destination = NoStop
    /\ departure_time = 0 /\ max_rounds = 0
    /\ labels = <<>>
    /\ marked_stops = {}
    /\ k = 0
    /\ routes_to_explore = {}
    /\ pc = "idle"
    /\ result = NoResult
    /\ previous = NoResult
    /\ fet = NoCall

\* the networks of a shape: its free trips with every timetable, then its
\* fixed trips
NetworkTrips(shape, dwells) ==
    {ts \o [i \in 1..Len(shape.fixedTrips) |->
                MakeTrip(shape.fixedTrips[i].route,
                         shape.routes[shape.fixedTrips[i].route],
                         shape.fixedTrips[i].departures,
                         shape.fixedTrips[i].dwell)] :
        ts \in TripLists(shape.routes, shape.tripRoutes,
                         Len(shape.tripRoutes), dwells)}

Init ==
    \E shape \in Shapes :
        \E ts \in NetworkTrips(shape, Dwells) :
            Constructed(shape.routes, ts)

\* ------------------------------------------------------------------------
\* RAPTOR.query, step by step
\* ------------------------------------------------------------------------
\* lines 229-237: the tables, the origin's round-0 label, the marked set.
\* With max_rounds < 0 the list of tables is empty and labels[0] raises.
Enter(o, d, t, K) ==
    /\ origin' = o /\ destination' = d /\ departure_time' = t /\ max_rounds' = K
    /\ routes_to_explore' = {}
    /\ IF K + 1 <= 0
       THEN /\ labels' = <<>>
            /\ marked_stops' = {}
            /\ k' = 0
            /\ pc' = "done"
            /\ result' = Returned("IndexError", o, d, t, K, 0, <<>>)
       ELSE /\ labels' = [i \in 1..(K + 1) |->
                            IF i = 1 THEN Put(EmptyDict, o, NewLabel(t, NoStop, NoTrip, 0))
                            ELSE EmptyDict]
            /\ marked_stops' = {o}
            /\ k' = 1
            /\ pc' = "round"
            /\ result' = NoResult

\* a caller invokes query(origin, destination, departure_time, max_rounds)
QueryCall(o, d, t, K) ==
    /\ pc = "idle"
    /\ Enter(o, d, t, K)
    /\ UNCHANGED <<network, previous, fet>>

\* the caller repeats, once, the query it got an answer to with max_rounds + 1
Requery ==
    /\ pc = "done"
    /\ previous = NoResult
    /\ result.kind \in {"Journey", "None"}
    /\ max_rounds < MaxRounds
    /\ previous' = result
    /\ Enter(origin, destination, departure_time, max_rounds + 1)
    /\ UNCHANGED <<network, fet>>

\* lines 240-253: the head of `for k in range(1, max_rounds + 1)`
BeginRound ==
    /\ pc = "round"
    /\ IF k <= max_rounds
       THEN /\ labels' = [labels EXCEPT ![k + 1] = labels[k]]
            /\ routes_to_explore' = RouteQueue(routes_at_stop, marked_stops)
            /\ marked_stops' = {}
            /\ pc' = "scan"
       ELSE /\ pc' = "reconstruct"
            /\ UNCHANGED <<labels, routes_to_explore, marked_stops>>
    /\ UNCHANGED <<network, queryArgs, k, result, previous, fet>>

\* lines 256-301: one iteration of `for route in routes_to_explore`; the
\* set is iterated in an order the code does not control
ScanRoute(route) ==
    /\ pc = "scan"
    /\ route \in routes_to_explore
    /\ LET st == ScanRouteResult(routes, trips, trips_on_route, route, labels[k], k,
                                 [labels |-> labels[k + 1], marked |-> marked_stops])
       IN  /\ labels' = [labels EXCEPT ![k + 1] = st.labels]
           /\ marked_stops' = st.marked
    /\ routes_to_explore' = routes_to_explore \ {route}
    /\ UNCHANGED <<network, queryArgs, k, pc, result, previous, fet>>

\* lines 303-305: early termination
TerminatesEarly(labs, marked, d, round) ==
    d \in DOMAIN labs[round + 1] /\ d \notin marked

EndRound ==
    /\ pc = "scan"
    /\ routes_to_explore = {}
    /\ IF TerminatesEarly(labels, marked_stops, destination, k)
       THEN pc' = "reconstruct" /\ k' = k
       ELSE pc' = "round" /\ k' = k + 1
    /\ UNCHANGED <<network, queryArgs, labels, marked_stops, routes_to_explore,
                   result, previous, fet>>

\* line 308: return self._reconstruct_journey(...)
Reconstruct ==
    /\ pc = "reconstruct"
    /\ result' = reconstruct_journey(origin, destination, departure_time,
                                     labels, max_rounds)
    /\ pc' = "done"
    /\ UNCHANGED <<network, queryArgs, labels, marked_stops, k,
                   routes_to_explore, previous, fet>>

\* the queries within the input domain: t in Times, K in 1..MaxRounds

Next ==
    \/ \E o \in Stops, d \in Stops, t \in Times, K \in 1..MaxRounds :
            QueryCall(o, d, t, K)
    \/ BeginRound
    \/ \E route \in 1..Len(routes) : ScanRoute(route)
    \/ EndRound
    \/ Reconstruct
    \/ Requery

Spec == Init /\ [][Next]_vars

\* ------------------------------------------------------------------------
\* Queries from outside the input domain as well: a negative departure
\* time, a round limit below 1
\* ------------------------------------------------------------------------
QueryTimes == (0 - 1)..MaxTime
RoundLimits == (0 - 1)..MaxRounds

InitInput ==
    \E ts \in NetworkTrips(ReturnShape, Dwells) :
        Constructed(ReturnShape.routes, ts)

NextInput ==
    \/ \E o \in Stops, d \in Stops, t \in QueryTimes, K \in RoundLimits :
            QueryCall(o, d, t, K)
    \/ BeginRound
    \/ \E route \in 1..Len(routes) : ScanRoute(route)
    \/ EndRound
    \/ Reconstruct
    \/ Requery

SpecInput == InitInput /\ [][NextInput]_vars

\* ------------------------------------------------------------------------
\* Regular timetables: a trunk route and a feeder, every trip arriving as
\* it departs, and of two trips of a route one ahead of the other at every stop
\* ------------------------------------------------------------------------
TrunkAndFeeder ==
    [routes |-> << <<1, 2, 3>>, <<1, 2>> >>, tripRoutes |-> <<1, 1, 2>>,
     fixedTrips |-> <<>>]

NoOvertaking(rs, ts) ==
    \A i \in 1..Len(ts), j \in 1..Len(ts) :
        (i # j /\ ts[i].route = ts[j].route) =>
            \/ \A s \in Range(rs[ts[i].route]) :
                    ts[i].stop_times[s][2] < ts[j].stop_times[s][2]
            \/ \A s \in Range(rs[ts[i].route]) :
                    ts[j].stop_times[s][2] < ts[i].stop_times[s][2]

InitRegular ==
    \E ts \in NetworkTrips(TrunkAndFeeder, {0}) :
        /\ NoOvertaking(TrunkAndFeeder.routes, ts)
        /\ Constructed(TrunkAndFeeder.routes, ts)

NextRegular ==
    \/ \E o \in Stops, d \in Stops, t \in Times, K \in 1..MaxRounds :
            QueryCall(o, d, t, K)
    \/ BeginRound
    \/ \E route \in 1..Len(routes) : ScanRoute(route)
    \/ EndRound
    \/ Reconstruct
    \/ Requery

SpecRegular == InitRegular /\ [][NextRegular]_vars

\* ------------------------------------------------------------------------
\* A direct route from stop 1 to stop 4 beside a chain of three routes
\* through stops 2 and 3; every trip arrives as it departs
\* ------------------------------------------------------------------------
ChainShape ==
    [routes |-> << <<1, 4>>, <<1, 2>>, <<2, 3>>, <<3, 4>> >>, tripRoutes |-> <<1, 4>>,
     fixedTrips |-> << [route |-> 2, departures |-> <<0, 0>>, dwell |-> 0],
                       [route |-> 3, departures |-> <<0, 1>>, dwell |-> 0] >>]

ChainStops == UNION {Range(ChainShape.routes[r]) : r \in 1..Len(ChainShape.routes)}

InitChain ==
    \E ts \in NetworkTrips(ChainShape, {0}) :
        Constructed(ChainShape.routes, ts)

NextChain ==
    \/ \E o \in ChainStops, d \in ChainStops, t \in Times, K \in 1..MaxRounds :
            QueryCall(o, d, t, K)
    \/ BeginRound
    \/ \E route \in 1..Len(routes) : ScanRoute(route)
    \/ EndRound
    \/ Reconstruct
    \/ Requery

SpecChain == InitChain /\ [][NextChain]_vars

\* ------------------------------------------------------------------------
\* Calls of find_earliest_trip on a constructed network
\* ------------------------------------------------------------------------
FindEarliestTripCall(route, stop, current_time) ==
    /\ pc = "idle"
    /\ fet' = [route |-> route, stop |-> stop, current_time |-> current_time,
               result |-> find_earliest_trip(trips, trips_on_route, route,
                                             stop, current_time)]
    /\ UNCHANGED <<network, queryArgs, labels, marked_stops, k,
                   routes_to_explore, pc, result, previous>>

NextFind ==
    \E route \in 1..Len(routes), stop \in Stops, current_time \in Times :
        FindEarliestTripCall(route, stop, current_time)

InitFind ==
    \E shape \in PlainShapes \cup {ReturnShape} :
        \E ts \in NetworkTrips(shape, Dwells) :
            Constructed(shape.routes, ts)

SpecFind == InitFind /\ [][NextFind]_vars

\* ------------------------------------------------------------------------
\* RAPTOR.query run as a whole with the queue of every round iterated in
\* the order of the routes list
\* ------------------------------------------------------------------------
RECURSIVE ScanInOrder(_, _, _, _, _, _, _, _)
\* `for route in routes_to_explore`, taking the routes of the queue by
\* ascending index from `route` on
ScanInOrder(rs, ts, tor, queue, route, prev, round, st) ==
    IF route > Len(rs) THEN st
    ELSE ScanInOrder(rs, ts, tor, queue, route + 1, prev, round,
                     IF route \in queue
                     THEN ScanRouteResult(rs, ts, tor, route, prev, round, st)
                     ELSE st)

RECURSIVE RoundsInOrder(_, _, _, _, _, _, _, _, _)
\* `for k in range(1, max_rounds + 1)` from round `round` on; run holds the
\* tables, the marked set and the last round executed; `breaks` tells
\* whether the early termination of lines 303-305 is in force
RoundsInOrder(rs, ts, ras, tor, d, K, breaks, round, run) ==
    IF round > K THEN run
    ELSE LET st == ScanInOrder(rs, ts, tor, RouteQueue(ras, run.marked), 1,
                               run.labels[round], round,
                               [labels |-> run.labels[round], marked |-> {}])
             run2 == [labels |-> [run.labels EXCEPT ![round + 1] = st.labels],
                      marked |-> st.marked,
                      round |-> round]
         IN  IF breaks /\ TerminatesEarly(run2.labels, run2.marked, d, round)
             THEN run2
             ELSE RoundsInOrder(rs, ts, ras, tor, d, K, breaks, round + 1, run2)

\* the tables query(o, d, t, K) ends with when K >= 0
QueryInOrder(rs, ts, ras, tor, o, d, t, K, breaks) ==
    RoundsInOrder(rs, ts, ras, tor, d, K, breaks, 1,
                  [labels |-> [i \in 1..(K + 1) |->
                                  IF i = 1
                                  THEN Put(EmptyDict, o, NewLabel(t, NoStop, NoTrip, 0))
                                  ELSE EmptyDict],
                   marked |-> {o},
                   round |-> 0])

\* ------------------------------------------------------------------------
\* Vocabulary of the properties
\* ------------------------------------------------------------------------
Done == pc = "done"
ReturnedJourney == Done /\ result.kind = "Journey"

\* the stops known to the network: those on some route
KnownStops == UNION {Range(routes[r]) : r \in 1..Len(routes)}

\* position of a stop on the route of trip t, 0 when it is not on it
PositionOn(t, stop) == get_stop_index(routes[trips[t].route], stop)

Departure(t, stop) == trips[t].stop_times[stop][2]
Arrival(t, stop) == trips[t].stop_times[stop][1]

\* one more leg: ride trip t forward from a stop reached at p[2]
RideOn(P) ==
    {<<y[3], Arrival(y[2], y[3])>> :
        y \in {z \in P \X (1..Len(trips)) \X Stops :
                    /\ PositionOn(z[2], z[1][1]) > 0
                    /\ PositionOn(z[2], z[3]) > PositionOn(z[2], z[1][1])
                    /\ Departure(z[2], z[1][1]) >= z[1][2]}}

RECURSIVE FeasibleArrivals(_)
\* <<stop, time>> of every feasible journey from origin with at most n legs
FeasibleArrivals(n) ==
    IF n <= 0 THEN {<<origin, departure_time>>}
    ELSE LET P == FeasibleArrivals(n - 1) IN P \cup RideOn(P)

\* ------------------------------------------------------------------------
\* Properties of the journey returned by query
\* ------------------------------------------------------------------------
\* C1 (as claimed): the returned journey arrives no later than any feasible
\* journey of at most max_rounds legs from origin to destination.
Dominance ==
    Done =>
        \A p \in FeasibleArrivals(max_rounds) :
            p[1] = destination =>
                result.kind = "Journey" /\ result.arrival_time <= p[2]

\* C2: the first leg's trip departs its from_stop at or after departure_time,
\* and the trip of every later leg departs its from_stop at or after the
\* arrival there of the trip of the leg before it.
LegBoardable(legs, i) ==
    /\ legs[i][1] \in DOMAIN trips[legs[i][3]].stop_times
    /\ IF i = 1
       THEN Departure(legs[i][3], legs[i][1]) >= departure_time
       ELSE /\ legs[i][1] \in DOMAIN trips[legs[i - 1][3]].stop_times
            /\ Departure(legs[i][3], legs[i][1]) >= Arrival(legs[i - 1][3], legs[i][1])

LegBoardability ==
    ReturnedJourney =>
        \A i \in 1..Len(result.legs) : LegBoardable(result.legs, i)

\* the round table the i-th leg of the returned journey was read from
LegTable(i) ==
    BestRoundFrom(labels, destination, max_rounds, 0, -1) - (Len(result.legs) - i)

\* a journey is returned one of whose legs was read from a label written in
\* an earlier round than the table it was read from, after which the walk
\* read another label at the boarding stop than the one the leg was boarded on
LegBoardabilityWitness ==
    /\ ReturnedJourney
    /\ \E i \in 1..Len(result.legs) :
          LET c == LegTable(i)
              label == labels[c + 1][result.legs[i][2]]
          IN  /\ label.round < c
              /\ labels[c][result.legs[i][1]] # labels[label.round][result.legs[i][1]]

\* C3: a returned journey with at least one leg is a chain from origin to
\* destination, and the backward walk raises no KeyError.
ConnectedPath ==
    /\ Done => result.kind # "KeyError"
    /\ (ReturnedJourney /\ Len(result.legs) > 0) =>
            /\ result.legs[1][1] = origin
            /\ result.legs[Len(result.legs)][2] = destination
            /\ \A i \in 1..(Len(result.legs) - 1) :
                    result.legs[i][2] = result.legs[i + 1][1]

\* a journey of two legs changing at a stop that is neither origin nor
\* destination is among the journeys returned
ConnectedPathWitness ==
    /\ ReturnedJourney
    /\ Len(result.legs) = 2
    /\ result.legs[1][2] \notin {origin, destination}

\* C4 (as claimed): every leg rides its trip forward: both stops are on the
\* trip's route and from_stop comes strictly before to_stop.
ForwardLegsOnly ==
    ReturnedJourney =>
        \A i \in 1..Len(result.legs) :
            /\ PositionOn(result.legs[i][3], result.legs[i][1]) > 0
            /\ PositionOn(result.legs[i][3], result.legs[i][1])
                 < PositionOn(result.legs[i][3], result.legs[i][2])

\* C5 (as claimed): a valid query with origin = destination returns a
\* journey with no legs that arrives at departure_time.
SameStopShortcut ==
    (Done /\ origin = destination /\ departure_time >= 0 /\ max_rounds >= 1) =>
        /\ result.kind = "Journey"
        /\ result.legs = <<>>
        /\ result.arrival_time = departure_time

Monotonicity ==
    (Done /\ previous.kind = "Journey") =>
        /\ result.kind = "Journey"
        /\ result.arrival_time <= previous.arrival_time

\* the repeated query is answered with a journey arriving strictly earlier
MonotonicityWitness ==
    /\ Done
    /\ previous.kind = "Journey"
    /\ result.kind = "Journey"
    /\ result.max_rounds = previous.max_rounds + 1
    /\ <<result.origin, result.destination, result.departure_time>>
         = <<previous.origin, previous.destination, previous.departure_time>>
    /\ result.arrival_time < previous.arrival_time

\* ------------------------------------------------------------------------
\* Properties of find_earliest_trip
\* ------------------------------------------------------------------------
\* the trips of the route of the last call that can be boarded at its stop
\* at or after its ready time
Qualifying ==
    {t \in 1..Len(trips) :
        /\ trips[t].route = fet.route
        /\ fet.stop \in DOMAIN trips[t].stop_times
        /\ Departure(t, fet.stop) >= fet.current_time}

\* position of trip t in trips_on_route[route of the last call]
PlaceOnRoute(t) ==
    CHOOSE i \in 1..Len(trips_on_route[fet.route]) : trips_on_route[fet.route][i] = t

\* C8: find_earliest_trip returns a trip of the route departing the stop at
\* or after the ready time, of least such departure and the first of these
\* in trips_on_route order; it returns None when no trip qualifies, when the
\* route has no trips and when the stop is not on the route.
EarliestTripContract ==
    fet.route # 0 =>
        /\ fet.stop \notin Range(routes[fet.route]) => fet.result = NoTrip
        /\ (\A t \in 1..Len(trips) : trips[t].route # fet.route) => fet.result = NoTrip
        /\ Qualifying = {} => fet.result = NoTrip
        /\ Qualifying # {} =>
              /\ fet.result \in Qualifying
              /\ \A t \in Qualifying :
                    /\ Departure(fet.result, fet.stop) <= Departure(t, fet.stop)
                    /\ Departure(fet.result, fet.stop) = Departure(t, fet.stop)
                          => PlaceOnRoute(fet.result) <= PlaceOnRoute(t)

\* a call with a positive ready time answered with the first of two trips
\* tied on the least qualifying departure
EarliestTripWitness ==
    /\ fet.route # 0
    /\ fet.result # NoTrip
    /\ \E t \in Qualifying :
          /\ t # fet.result
          /\ Departure(t, fet.stop) = Departure(fet.result, fet.stop)
    /\ fet.current_time > 0

\* ------------------------------------------------------------------------
\* Properties of the query boundary
\* ------------------------------------------------------------------------
OutsideInputDomain == departure_time < 0 \/ max_rounds < 1

UnknownStopQuery == origin \notin KnownStops \/ destination \notin KnownStops

\* C9 (as claimed): a query from or to a stop on no route fails with an
\* unknown-stop error (stated for the queries within the input domain).
UnknownStopRejected ==
    (Done /\ UnknownStopQuery /\ ~OutsideInputDomain) => result.kind = "UnknownStop"

\* C9 (amended): a query from or to a stop on no route, with max_rounds >= 0,
\* raises nothing: it returns None when origin and destination differ, and a
\* journey of no legs arriving at departure_time when they are equal.
UnknownStopAnswered ==
    (Done /\ UnknownStopQuery /\ max_rounds >= 0) =>
        IF origin = destination
        THEN /\ result.kind = "Journey"
             /\ result.legs = <<>>
             /\ result.arrival_time = departure_time
        ELSE result.kind = "None"

\* a query from a stop of the network to a stop on no route has run a round
\* that labelled further stops, and returned None
UnknownStopWitness ==
    /\ Done
    /\ origin \in KnownStops
    /\ destination \notin KnownStops
    /\ departure_time >= 0
    /\ max_rounds >= 1
    /\ Cardinality(DOMAIN labels[2]) > 1
    /\ result.kind = "None"

\* C10 (as claimed): a query with a negative departure time or max_rounds < 1
\* is rejected with an input-domain failure before any label table is
\* initialised (stated for max_rounds >= 0, where the code raises nothing).
InputDomainRejected ==
    (Done /\ OutsideInputDomain /\ max_rounds >= 0) =>
        /\ result.kind = "InputDomain"
        /\ labels = <<>>

\* C10 (amended): a query with a negative departure time or max_rounds < 1 is
\* not rejected at the boundary.  With max_rounds < 0 it raises IndexError at
\* the write of the origin's round-0 label; otherwise the max_rounds + 1
\* tables are initialised, the origin is labelled with departure_time, and
\* the query returns a journey departing at departure_time or None, with
\* max_rounds = 0 a journey exactly when origin = destination.
InputDomainAnswered ==
    (Done /\ OutsideInputDomain) =>
        IF max_rounds < 0
        THEN result.kind = "IndexError" /\ labels = <<>>
        ELSE /\ Len(labels) = max_rounds + 1
             /\ origin \in DOMAIN labels[1]
             /\ labels[1][origin].arrival_time = departure_time
             /\ result.kind \in {"Journey", "None"}
             /\ result.kind = "Journey" => result.departure_time = departure_time
             /\ max_rounds = 0 => (result.kind = "Journey" <=> origin = destination)

\* a query with a negative departure time returned a journey with a leg
InputDomainWitness ==
    /\ Done
    /\ departure_time < 0
    /\ result.kind = "Journey"
    /\ Len(result.legs) >= 1
    /\ result.departure_time < 0

\* ------------------------------------------------------------------------
\* Properties of the label tables and of the result read from them
\* ------------------------------------------------------------------------
\* the rounds whose table holds a label for the destination
DestinationRounds ==
    {j \in 0..(Len(labels) - 1) : destination \in DOMAIN labels[j + 1]}

\* C11: a query within the input domain raises nothing; it returns None
\* exactly when no table of the rounds 0..max_rounds holds a label for the
\* destination, which then differs from the origin; a journey it returns
\* to another stop than the origin has between 1 and max_rounds legs.
NoJourneyResult ==
    Done =>
        /\ result.kind \in {"Journey", "None"}
        /\ result.kind = "None" <=> DestinationRounds = {}
        /\ result.kind = "None" => destination # origin
        /\ (result.kind = "Journey" /\ destination # origin) =>
                Len(result.legs) \in 1..max_rounds

\* every round of a query of two rounds or more has run and labelled stops
\* beside the origin, none of them the destination, a stop of the network:
\* None is returned
NoJourneyWitness ==
    /\ Done
    /\ result.kind = "None"
    /\ destination \in KnownStops
    /\ max_rounds >= 2
    /\ Cardinality(DOMAIN labels[max_rounds + 1]) >= 2

\* the same query on the same network with every queue iterated in the
\* order of the routes list
SameQueryInOrder ==
    QueryInOrder(routes, trips, routes_at_stop, trips_on_route,
                 origin, destination, departure_time, max_rounds, TRUE)

\* C12 (as claimed): whatever the order in which the route queues were
\* iterated, the query returns the journey that the same query returns when
\* it iterates them in the order of the routes list: the same departure
\* and arrival time and the same sequence of legs.
Determinism ==
    (Done /\ max_rounds >= 0) =>
        result = reconstruct_journey(origin, destination, departure_time,
                                     SameQueryInOrder.labels, max_rounds)

\* the same query run through all max_rounds rounds, without the break of
\* lines 303-305
SameQueryAllRounds ==
    reconstruct_journey(origin, destination, departure_time,
        QueryInOrder(routes, trips, routes_at_stop, trips_on_route,
                     origin, destination, departure_time, max_rounds,
                     FALSE).labels,
        max_rounds)

\* C13 (as claimed): the query, which stops after the first round that
\* leaves a labelled destination unimproved, returns a journey with the
\* arrival time of the journey that running all max_rounds rounds returns.
EarlyTerminationLossless ==
    (Done /\ max_rounds >= 0) =>
        /\ result.kind = SameQueryAllRounds.kind
        /\ result.arrival_time = SameQueryAllRounds.arrival_time

\* ------------------------------------------------------------------------
\* Properties of the route scan
\* ------------------------------------------------------------------------
\* the step that scans `route` in the running round
ScansRoute(route) ==
    /\ pc = "scan"
    /\ route \in routes_to_explore
    /\ routes_to_explore' = routes_to_explore \ {route}

\* after the scan, every stop of the route downstream of a stop labelled in
\* the previous round's table is labelled no later than the arrival of any
\* trip of the route that can be caught at that labelled stop
DownstreamCaught(route) ==
    \A i \in 1..Len(routes[route]), j \in 1..Len(routes[route]) :
        LET b == routes[route][i]
            s == routes[route][j]
        IN  (i < j /\ b \in DOMAIN labels[k]) =>
                \A t \in 1..Len(trips) :
                    (trips[t].route = route
                        /\ Departure(t, b) >= labels[k][b].arrival_time) =>
                            /\ s \in DOMAIN labels'[k + 1]
                            /\ labels'[k + 1][s].arrival_time <= Arrival(t, s)

\* C14 (as claimed): the scan of a route swaps to the earlier trip that a
\* later labelled stop permits to catch, so that the labels it leaves
\* downstream use the earliest trip catchable at any labelled stop before.
BoardingSwap ==
    [][\A route \in 1..Len(routes) : ScansRoute(route) => DownstreamCaught(route)]_vars

\* the arrival time of every stop labelled in a table
ArrivalTimes(table) == [s \in DOMAIN table |-> table[s].arrival_time]

EndOfRound == pc = "scan" /\ routes_to_explore = {}

\* the rounds 1..k of the running query with every queue iterated in the
\* order of the routes list
RoundsSoFarInOrder ==
    QueryInOrder(routes, trips, routes_at_stop, trips_on_route,
                 origin, destination, departure_time, k, TRUE)

\* C15: at the end of every round, in whatever order the routes of the
\* queues were scanned, the arrival time of every stop in the tables so far
\* and the marked set are those left by scanning the queues in the order of
\* the routes list; only the back-pointers may differ.
RouteOrderIndependence ==
    EndOfRound =>
        LET run == RoundsSoFarInOrder
        IN  /\ run.round = k
            /\ run.marked = marked_stops
            /\ \A j \in 1..(k + 1) :
                    ArrivalTimes(run.labels[j]) = ArrivalTimes(labels[j])

\* a round has ended with a stop improved whose back-pointers differ from
\* those the scan in the order of the routes list leaves
RouteOrderWitness ==
    /\ EndOfRound
    /\ LET run == RoundsSoFarInOrder
       IN  \E s \in marked_stops : run.labels[k + 1][s] # labels[k + 1][s]

\* ------------------------------------------------------------------------
\* Properties of the reconstruction
\* ------------------------------------------------------------------------
\* the least arrival time among the destination's labels
BestArrival ==
    Min({labels[j + 1][destination].arrival_time : j \in DestinationRounds})

\* the first round whose table holds the destination at the least arrival
FirstBestRound ==
    Min({j \in DestinationRounds :
            labels[j + 1][destination].arrival_time = BestArrival})

\* C16: the returned journey arrives at the least arrival time among the
\* destination's labels of the rounds 0..max_rounds; the backward walk
\* starts from the first round attaining it: the last leg is read from that
\* round's label and the journey has no more legs than that round's number.
RoundSelection ==
    ReturnedJourney =>
        /\ result.arrival_time = BestArrival
        /\ BestRoundFrom(labels, destination, max_rounds, 0, -1) = FirstBestRound
        /\ Len(result.legs) <= FirstBestRound
        /\ FirstBestRound > 0 =>
              LET label == labels[FirstBestRound + 1][destination]
              IN  result.legs[Len(result.legs)]
                    = <<label.previous_stop, destination, label.trip>>

\* a journey is returned while an earlier table than the one it is read
\* from holds the destination at a later time, and a later table holds it
\* at the same, least, time
RoundSelectionWitness ==
    /\ ReturnedJourney
    /\ \E i \in DestinationRounds, j \in DestinationRounds :
          /\ i < FirstBestRound
          /\ j > FirstBestRound
          /\ labels[i + 1][destination].arrival_time > BestArrival
          /\ labels[j + 1][destination].arrival_time = BestArrival

\* ------------------------------------------------------------------------
\* Properties of the rounds
\* ------------------------------------------------------------------------
\* every label written in a round names a boarding stop that the previous
\* round's table holds, and a trip that departs from it at or after the
\* arrival time that table gives
BoardedOnPreviousRound ==
    \A j \in 1..(Len(labels) - 1) :
        \A s \in DOMAIN labels[j + 1] :
            LET label == labels[j + 1][s]
            IN  label.round = j =>
                    /\ label.previous_stop \in DOMAIN labels[j]
                    /\ can_board_at(trips[label.trip], label.previous_stop,
                                    labels[j][label.previous_stop].arrival_time)

\* a step of the rounds writes to no table but the one of round k
OnlyRoundTableWritten ==
    pc \in {"round", "scan"} =>
        /\ Len(labels') = Len(labels)
        /\ \A j \in 1..Len(labels) : j # k + 1 => labels'[j] = labels[j]

\* C17: the steps of round k leave the tables of the rounds before k (and
\* after it) unchanged, and every label they write was boarded on the
\* label of the previous round's table, never on one improved in round k.
RoundBarrier ==
    [][OnlyRoundTableWritten /\ BoardedOnPreviousRound']_vars

\* a round has written a label boarded at another stop which the same round
\* improved, on a trip that departs there at or after the previous round's
\* arrival
RoundBarrierWitness ==
    /\ pc = "scan"
    /\ k >= 2
    /\ \E s \in DOMAIN labels[k + 1] :
          LET label == labels[k + 1][s]
              b == label.previous_stop
          IN  /\ label.round = k
              /\ b # s
              /\ labels[k + 1][b].arrival_time < labels[k][b].arrival_time

\* the arrival times at the destination of the feasible journeys of at most
\* max_rounds legs
FeasibleAtDestination ==
    {p[2] : p \in {q \in FeasibleArrivals(max_rounds) : q[1] = destination}}

\* C18 (as claimed): the label of every stop in the table of every round j
\* is the arrival of a feasible journey from the origin of at most j legs,
\* departing no earlier than departure_time and riding every trip forward
\* from a stop reached before the trip departs; and no journey is returned
\* that arrives before the earliest such journey to the destination.
LabelSoundness ==
    /\ \A j \in 0..(Len(labels) - 1) :
          \A s \in DOMAIN labels[j + 1] :
              <<s, labels[j + 1][s].arrival_time>> \in FeasibleArrivals(j)
    /\ (ReturnedJourney /\ FeasibleAtDestination # {}) =>
            result.arrival_time >= Min(FeasibleAtDestination)

====
